---- MODULE Spec2Model ----
(***************************************************************************)
(* Model of cogs/music_power.py: the per-guild player (GuildPlayer), its   *)
(* scheduler loop (_player_loop), the control-log ingestor (_control_loop, *)
(* _apply_control) and the slash commands that edit a player.              *)
(*                                                                         *)
(* All tasks run on one asyncio event loop: a task runs without            *)
(* interleaving until it reaches an await that really suspends.  The loop  *)
(* positions "top", "play" and "dispatch" and the ingestor position        *)
(* "batch" are positions inside such a run; every other action is guarded  *)
(* by ~Running.                                                            *)
(***************************************************************************)
EXTENDS Integers, Sequences, FiniteSets, TLC

\* ---------------------------------------------------------------- bounds
MaxQueue == 2      \* enqueue commands are issued only below this length
MaxCb == 1         \* after-callbacks scheduled and not yet run, per guild
MaxRecs == 2       \* records the external writer appends to the control log
RecLen == 2        \* content bytes of one encoded record
MaxSuspended == 1  \* command handlers suspended in an await at one time
MaxEdit == 3       \* length of the queues the queue editors are applied to
MaxBatch == 3      \* records written to the control log in the batch specification

\* ------------------------------------------------------- program constants
DefaultVolume == 100
VolMin == 1
VolMax == 200
QueueExportLimit == 100

\* ---------------------------------------------------------- input domains
Gids == {7, 8}              \* guild ids a control record may name
FrontGuilds == {7}          \* guilds in which slash commands are issued
Tracks == {"A", "B"}
None == "None"
Modes == {"off", "track", "queue", "auto"}
QTracks == {"A", "B", "C"}  \* tracks in the queues the editors are applied to
Levels == {-5, 0, 500}      \* levels given to /music volume

VARIABLES
    players,      \* MusicPower.players: the guild ids that have a GuildPlayer
    queue,        \* GuildPlayer.queue
    current,      \* GuildPlayer.current
    volume,       \* GuildPlayer.volume
    loop_mode,    \* GuildPlayer.loop_mode
    voice,        \* GuildPlayer.voice: "none" | "up" (connected) | "down"
    vc_ready,     \* GuildPlayer._vc_ready
    next_event,   \* GuildPlayer.next_event
    lock,         \* GuildPlayer.lock: the task holding it, or "free"
    pc,           \* position of the _player_loop task ("none": no task)
    tasks,        \* number of _player_loop tasks created and not finished
    ltrack,       \* _play_current_track's local `track`
    playing,      \* what the voice client's audio player renders, or None
    cb,           \* _after_play callbacks scheduled on the event loop
    fe_search,    \* slash command suspended in ytdl_search: "none"|"play"|"playtop"
    disc,         \* disconnect() suspended in voice.disconnect: "none"|"fe"|"ctl"
    dirty,        \* another command touched the guild while disc # "none"
    ctl_pc,       \* _control_loop: "detached"|"sleep"|"batch"|"search"|"disc"
    ctl_lines,    \* the lines of the batch still to be applied
    ctl_evt,      \* the event whose _apply_control is suspended
    control_pos,  \* MusicPower._control_pos
    log,          \* the bytes of the control file
    recs,         \* the events the writer encoded, by record number
    attach_pos,   \* length of the log when the ingestor attached
    applied,      \* record numbers handed to _apply_control, in order
    broken,       \* tracks whose extraction always returns no url
    exported,     \* what export_state wrote last to the state file, by guild
    last          \* the action taken last: [op, arg]

vars == <<players, queue, current, volume, loop_mode, voice, vc_ready,
          next_event, lock, pc, tasks, ltrack, playing, cb, fe_search, disc,
          dirty, ctl_pc, ctl_lines, ctl_evt, control_pos, log, recs,
          attach_pos, applied, broken, exported, last>>

logVars == <<control_pos, log, recs, attach_pos, applied>>
ctlVars == <<ctl_pc, ctl_lines, ctl_evt>>

\* ------------------------------------------------------------- JSON values
JInt(n) == [t |-> "int", v |-> n]
JStr(s) == [t |-> "str", v |-> s]
JNull == [t |-> "null"]

\* dict.get(key): the value, or None (JSON null) when the key is missing
PGet(p, k) == IF k \in DOMAIN p THEN p[k] ELSE JNull

\* Python truthiness of a decoded JSON value
Truthy(x) ==
    CASE x.t = "int" -> x.v # 0
      [] x.t = "str" -> x.v # ""
      [] OTHER -> FALSE

\* `payload.get(key) or default`
GetOr(p, k, d) == IF Truthy(PGet(p, k)) THEN PGet(p, k) ELSE d

\* int(x): defined on ints; a non-numeric string raises ValueError
IntOk(x) == x.t = "int"
IntVal(x) == x.v

\* str.lower() on the action tags the model uses
Lower(s) ==
    CASE s = "STOP" -> "stop"
      [] s = "Volume" -> "volume"
      [] OTHER -> s

\* ------------------------------------------------------------ queue editing
RemoveAt(q, i) == SubSeq(q, 1, i - 1) \o SubSeq(q, i + 1, Len(q))
InsertAt(q, j, x) == SubSeq(q, 1, j - 1) \o <<x>> \o SubSeq(q, j, Len(q))

\* list.insert(j0, x) with a 0-based index, clamped to the list as Python does
PyInsert(q, j0, x) == InsertAt(q, (IF j0 > Len(q) THEN Len(q) ELSE j0) + 1, x)

q_add(q, t, to_front) == IF to_front THEN PyInsert(q, 0, t) ELSE Append(q, t)

\* mutant: the items at src and dst change places
q_move_Swap(q, src, dst) ==
    IF ~(src - 1 < 0 \/ dst - 1 < 0 \/ src - 1 >= Len(q) \/ dst - 1 >= Len(q))
    THEN [q EXCEPT ![src] = q[dst], ![dst] = q[src]]
    ELSE q

\* mutant: the index is taken as 0-based
q_remove_ZeroBased(q, index) ==
    IF 0 <= index /\ index < Len(q) THEN RemoveAt(q, index + 1) ELSE q

q_move_ok(q, src, dst) ==
    ~(src - 1 < 0 \/ dst - 1 < 0 \/ src - 1 >= Len(q) \/ dst - 1 >= Len(q))

q_move(q, src, dst) ==
    IF q_move_ok(q, src, dst)
    THEN PyInsert(RemoveAt(q, src), dst - 1, q[src])
    ELSE q

q_remove_ok(q, index) == 0 <= index - 1 /\ index - 1 < Len(q)
q_remove(q, index) == IF q_remove_ok(q, index) THEN RemoveAt(q, index) ELSE q
q_removed(q, index) == IF q_remove_ok(q, index) THEN q[index] ELSE None

\* mutant: every place is drawn from the list independently
Shuffles_WithRepeats(q) ==
    {[i \in 1..Len(q) |-> q[p[i]]] : p \in [1..Len(q) -> 1..Len(q)]}

\* the orders random.shuffle can leave the list in
Perms(q) ==
    {p \in [1..Len(q) -> 1..Len(q)] : \A i, j \in 1..Len(q) : p[i] = p[j] => i = j}
Shuffles(q) == {[i \in 1..Len(q) |-> q[p[i]]] : p \in Perms(q)}

\* mutant: the volume is capped above only
ClampVolume_NoFloor(vol) == IF VolMax < vol THEN VolMax ELSE vol

\* max(1, min(200, vol))
ClampVolume(vol) ==
    IF (IF VolMax < vol THEN VolMax ELSE vol) < VolMin
    THEN VolMin
    ELSE (IF VolMax < vol THEN VolMax ELSE vol)
\* ----------------------------------------------------------- the event loop
\* A task is inside a run that has not reached a suspending await.
Running ==
    \/ ctl_pc = "batch"
    \/ \E g \in Gids : pc[g] \in {"top", "play", "dispatch"}

\* `last` names the loop steps, the teardowns and the control actions; every
\* other handler is recorded as "cmd"
Marked == {"stop", "leave", "volume", "dropped"}
Mark(a) == IF a \in Marked THEN a ELSE "other"
SetLast(op, arg) == last' = [op |-> op, arg |-> arg]

\* ------------------------------------------------- a GuildPlayer as a record
S(g) ==
    [queue |-> queue[g], current |-> current[g], volume |-> volume[g],
     loop_mode |-> loop_mode[g], voice |-> voice[g], vc_ready |-> vc_ready[g],
     next_event |-> next_event[g], pc |-> pc[g], tasks |-> tasks[g],
     playing |-> playing[g], cb |-> cb[g], fe_search |-> fe_search[g],
     disc |-> disc[g], dirty |-> dirty[g]]

\* get_player(g) followed by the handler's writes r to that player
Install(g, r) ==
    /\ players' = players \cup {g}
    /\ queue' = [queue EXCEPT ![g] = r.queue]
    /\ current' = [current EXCEPT ![g] = r.current]
    /\ volume' = [volume EXCEPT ![g] = r.volume]
    /\ loop_mode' = [loop_mode EXCEPT ![g] = r.loop_mode]
    /\ voice' = [voice EXCEPT ![g] = r.voice]
    /\ vc_ready' = [vc_ready EXCEPT ![g] = r.vc_ready]
    /\ next_event' = [next_event EXCEPT ![g] = r.next_event]
    /\ pc' = [pc EXCEPT ![g] = r.pc]
    /\ tasks' = [tasks EXCEPT ![g] = r.tasks]
    /\ playing' = [playing EXCEPT ![g] = r.playing]
    /\ cb' = [cb EXCEPT ![g] = r.cb]
    /\ fe_search' = [fe_search EXCEPT ![g] = r.fe_search]
    /\ disc' = [disc EXCEPT ![g] = r.disc]
    /\ dirty' = [dirty EXCEPT ![g] = r.dirty]

sessVars == <<players, queue, current, volume, loop_mode, voice, vc_ready,
              next_event, pc, tasks, playing, cb, fe_search, disc, dirty>>

\* a command other than the suspended teardown reaches the player
Touch(s) == [s EXCEPT !.dirty = (s.disc # "none")]

\* voice.stop(): the audio player, if any, ends and schedules _after_play
VoiceStop(s) ==
    IF s.playing # None
    THEN [s EXCEPT !.playing = None, !.cb = @ + 1]
    ELSE s

\* room for the callback a voice.stop() would schedule
CbRoom(g) == playing[g] # None => cb[g] < MaxCb

\* GuildPlayer.ensure_voice
ensure_voice(s) ==
    IF s.voice = "up"
    THEN [s EXCEPT !.vc_ready = TRUE]
    ELSE [s EXCEPT !.voice = "up", !.vc_ready = TRUE]

\* mutant: a start request creates a task whether or not one is alive
start_player_loop_Always(s) == [s EXCEPT !.pc = "new", !.tasks = @ + 1]

\* GuildPlayer.start_player_loop
start_player_loop(s) ==
    IF s.pc # "none"
    THEN s
    ELSE [s EXCEPT !.pc = "new", !.tasks = @ + 1]

\* mutant: the current track survives the teardown
disconnect_KeepCurrent(s, who) ==
    IF s.voice = "up"
    THEN [VoiceStop(s) EXCEPT !.queue = <<>>,
                              !.next_event = TRUE, !.voice = "down",
                              !.disc = who, !.dirty = (s.disc # "none")]
    ELSE [s EXCEPT !.queue = <<>>, !.next_event = TRUE,
                   !.voice = "none", !.vc_ready = FALSE,
                   !.dirty = (s.disc # "none")]

\* GuildPlayer.disconnect up to its await (or to its end when nothing is
\* connected); voice.disconnect(force=True) stops the audio player and drops
\* the connection before it suspends.
disconnect(s, who) ==
    IF s.voice = "up"
    THEN [VoiceStop(s) EXCEPT !.queue = <<>>, !.current = None,
                              !.next_event = TRUE, !.voice = "down",
                              !.disc = who, !.dirty = (s.disc # "none")]
    ELSE [s EXCEPT !.queue = <<>>, !.current = None, !.next_event = TRUE,
                   !.voice = "none", !.vc_ready = FALSE,
                   !.dirty = (s.disc # "none")]

\* GuildPlayer.disconnect after its await
disconnect_end(s) ==
    [s EXCEPT !.voice = "none", !.vc_ready = FALSE, !.disc = "none",
              !.dirty = FALSE]

\* GuildPlayer.set_volume
set_volume(s, vol) == [s EXCEPT !.volume = ClampVolume(vol)]
\* -------------------------------------------------- GuildPlayer._player_loop
restVars == <<lock, broken, exported, ctl_pc, ctl_lines, ctl_evt, control_pos, log,
              recs, attach_pos, applied>>

\* `await self.next_event.wait()`: no suspension when the event is set
AwaitPc(ev) == IF ev THEN "dispatch" ELSE "await"

\* mutant: the loop takes the last item of the queue
LoopTopStep_PopLast(s) ==
    IF ~s.vc_ready
    THEN [s EXCEPT !.pc = "vcwait"]
    ELSE IF s.current = None
         THEN IF s.queue = <<>>
              THEN [s EXCEPT !.next_event = FALSE, !.pc = "sleep"]
              ELSE [s EXCEPT !.next_event = FALSE,
                             !.current = s.queue[Len(s.queue)],
                             !.queue = SubSeq(s.queue, 1, Len(s.queue) - 1),
                             !.pc = "play"]
         ELSE [s EXCEPT !.next_event = FALSE, !.pc = "play"]

\* mutant: with nothing to play the loop waits for the completion event
\* instead of polling
LoopTopStep_WaitSignal(s) ==
    IF ~s.vc_ready
    THEN [s EXCEPT !.pc = "vcwait"]
    ELSE IF s.current = None
         THEN IF s.queue = <<>>
              THEN [s EXCEPT !.next_event = FALSE, !.pc = "await"]
              ELSE [s EXCEPT !.next_event = FALSE, !.current = Head(s.queue),
                             !.queue = Tail(s.queue), !.pc = "play"]
         ELSE [s EXCEPT !.next_event = FALSE, !.pc = "play"]

\* Lines 176-185: wait for the voice client, clear the completion event and,
\* with nothing current, take the head of the queue (or sleep when empty).
LoopTopStep(s) ==
    IF ~s.vc_ready
    THEN [s EXCEPT !.pc = "vcwait"]
    ELSE IF s.current = None
         THEN IF s.queue = <<>>
              THEN [s EXCEPT !.next_event = FALSE, !.pc = "sleep"]
              ELSE [s EXCEPT !.next_event = FALSE, !.current = Head(s.queue),
                             !.queue = Tail(s.queue), !.pc = "play"]
         ELSE [s EXCEPT !.next_event = FALSE, !.pc = "play"]

\* the task is inside its run, or is resumed from a sleep, from its creation
\* or from the wait on _vc_ready
LoopTopReady(g) ==
    IF pc[g] = "top"
    THEN TRUE
    ELSE IF pc[g] \in {"new", "sleep", "backoff"}
         THEN ~Running
         ELSE pc[g] = "vcwait" /\ vc_ready[g] /\ ~Running

LoopTop(g) ==
    /\ LoopTopReady(g)
    /\ Install(g, LoopTopStep(S(g)))
    /\ SetLast(IF LoopTopStep(S(g)).queue # queue[g] THEN "Pop" ELSE "LoopTop",
               None)
    /\ UNCHANGED <<ltrack, restVars>>

\* Lines 188 and 211-216: _play_current_track up to the extraction await;
\* without a voice client or a current track it returns and the loop waits
\* for the completion event it has just cleared.
LoopPlay(g) ==
    /\ pc[g] = "play"
    /\ IF voice[g] = "none" \/ current[g] = None
       THEN /\ pc' = [pc EXCEPT ![g] = AwaitPc(next_event[g])]
            /\ UNCHANGED ltrack
       ELSE /\ pc' = [pc EXCEPT ![g] = "extract"]
            /\ ltrack' = [ltrack EXCEPT ![g] = current[g]]
    /\ SetLast("LoopPlay", None)
    /\ UNCHANGED <<players, queue, current, volume, loop_mode, voice, vc_ready,
                   next_event, tasks, playing, cb, fe_search, disc, dirty,
                   restVars>>

\* voice.play(source): raises without a voice client (voice is None), when the
\* client is not connected and when its audio player is still running.
PlayRaises(s) == s.voice # "up" \/ s.playing # None

\* Lines 216-235 and 191: extraction returns; no url sets the completion
\* event (the track is skipped), a url is handed to the voice client; an
\* exception is caught at line 206 and the loop backs off.
ExtractDoneStep(s, t, ok) ==
    IF ~ok
    THEN [s EXCEPT !.next_event = TRUE, !.pc = "dispatch"]
    ELSE IF PlayRaises(s)
         THEN [s EXCEPT !.pc = "backoff"]
         ELSE [s EXCEPT !.playing = t, !.pc = AwaitPc(s.next_event)]

LoopExtractDone(g, ok) ==
    /\ pc[g] = "extract"
    /\ ~Running
    /\ ltrack[g] \in broken => ~ok
    /\ Install(g, ExtractDoneStep(S(g), ltrack[g], ok))
    /\ ltrack' = [ltrack EXCEPT ![g] = None]
    /\ SetLast(IF ~ok THEN "Skip"
               ELSE IF PlayRaises(S(g)) THEN "PlayRaised" ELSE "Played",
               None)
    /\ UNCHANGED restVars

\* Line 191: the completion event wakes the suspended loop
LoopWake(g) ==
    /\ pc[g] = "await"
    /\ next_event[g]
    /\ ~Running
    /\ pc' = [pc EXCEPT ![g] = "dispatch"]
    /\ SetLast("LoopWake", None)
    /\ UNCHANGED <<players, queue, current, volume, loop_mode, voice, vc_ready,
                   next_event, tasks, playing, cb, fe_search, disc, dirty,
                   ltrack, restVars>>

\* mutant: the finished track is put at the head of the queue
DispatchStep_Front(s) ==
    IF s.loop_mode = "track" /\ s.current # None
    THEN [s EXCEPT !.pc = "top"]
    ELSE IF s.loop_mode = "queue" /\ s.current # None
         THEN [s EXCEPT !.queue = <<s.current>> \o s.queue,
                        !.current = None, !.pc = "top"]
         ELSE [s EXCEPT !.current = None, !.pc = "top"]

\* mutant: repeat mode track is not honoured
DispatchStep_NoTrack(s) ==
    IF s.loop_mode = "queue" /\ s.current # None
    THEN [s EXCEPT !.queue = Append(s.queue, s.current),
                   !.current = None, !.pc = "top"]
    ELSE [s EXCEPT !.current = None, !.pc = "top"]

\* mutant: repeat mode auto refills the queue with the finished track
DispatchStep_AutoRefill(s) ==
    IF s.loop_mode = "track" /\ s.current # None
    THEN [s EXCEPT !.pc = "top"]
    ELSE IF s.loop_mode \in {"queue", "auto"} /\ s.current # None
         THEN [s EXCEPT !.queue = Append(s.queue, s.current),
                        !.current = None, !.pc = "top"]
         ELSE [s EXCEPT !.current = None, !.pc = "top"]

\* mutant: in repeat mode queue the finished track is discarded
DispatchStep_Discard(s) ==
    IF s.loop_mode = "track" /\ s.current # None
    THEN [s EXCEPT !.pc = "top"]
    ELSE [s EXCEPT !.current = None, !.pc = "top"]

\* Lines 194-202: the repeat mode decides what becomes of the current track
DispatchStep(s) ==
    IF s.loop_mode = "track" /\ s.current # None
    THEN [s EXCEPT !.pc = "top"]
    ELSE IF s.loop_mode = "queue" /\ s.current # None
         THEN [s EXCEPT !.queue = Append(s.queue, s.current),
                        !.current = None, !.pc = "top"]
         ELSE [s EXCEPT !.current = None, !.pc = "top"]

LoopDispatch(g) ==
    /\ pc[g] = "dispatch"
    /\ Install(g, DispatchStep(S(g)))
    /\ SetLast("Dispatch", IF current[g] = None THEN "absent" ELSE loop_mode[g])
    /\ UNCHANGED <<ltrack, restVars>>

\* ------------------------------------------------------- the voice client
\* The audio player reaches the end of its source and schedules _after_play.
TrackEnds(g) ==
    /\ playing[g] # None
    /\ cb[g] < MaxCb
    /\ ~Running
    /\ Install(g, VoiceStop(S(g)))
    /\ SetLast("TrackEnds", None)
    /\ UNCHANGED <<ltrack, restVars>>

\* Line 225: the event loop runs the scheduled next_event.set
AfterPlay(g) ==
    /\ cb[g] > 0
    /\ ~Running
    /\ Install(g, [S(g) EXCEPT !.next_event = TRUE, !.cb = @ - 1])
    /\ SetLast("AfterPlay", None)
    /\ UNCHANGED <<ltrack, restVars>>
\* ------------------------------------------------------------ slash commands
\* command handlers suspended in ytdl_search or voice.disconnect
Suspended ==
    Cardinality({g \in Gids : fe_search[g] # "none"})
    + Cardinality({g \in Gids : disc[g] = "fe"})
    + (IF ctl_pc \in {"search", "disc"} THEN 1 ELSE 0)

Indexes == 0..(MaxQueue + 1)

\* a slash command handler that runs to its end without suspending
Cmd(g, op, arg, r) ==
    /\ ~Running
    /\ Install(g, r)
    /\ SetLast(op, arg)
    /\ UNCHANGED <<ltrack, restVars>>

cmd_join(g) ==
    Cmd(g, "cmd", None, start_player_loop(ensure_voice(Touch(S(g)))))

\* what a teardown leaves: no queue, no current track, no voice client
TornDown(g) ==
    queue[g] = <<>> /\ current[g] = None /\ voice[g] = "none" /\ ~vc_ready[g]

\* "again": the call directly follows a finished teardown of the guild
TeardownArg(g) ==
    IF TornDown(g) /\ last.op \in {"Disconnect", "DisconnectEnd"}
    THEN "again"
    ELSE IF disc[g] = "none" THEN "clean" ELSE "dirty"

\* cmd_leave up to the await inside disconnect(), or to its end
cmd_leave(g) ==
    /\ voice[g] = "up" => disc[g] = "none" /\ CbRoom(g) /\ Suspended < MaxSuspended
    /\ Cmd(g, IF voice[g] = "up" THEN "DisconnectBegin" ELSE "Disconnect",
           TeardownArg(g), disconnect(S(g), "fe"))

\* disconnect() resumes after voice.disconnect (lines 164-165)
DisconnectEnd(g) ==
    /\ disc[g] = "fe"
    /\ Cmd(g, "DisconnectEnd", IF dirty[g] THEN "dirty" ELSE "clean",
           disconnect_end(S(g)))

\* cmd_play / cmd_playtop up to the await of ytdl_search
cmd_play_begin(g, top) ==
    /\ fe_search[g] = "none"
    /\ Suspended < MaxSuspended
    /\ Cmd(g, "cmd", None,
           [ensure_voice(Touch(S(g))) EXCEPT
               !.fe_search = IF top THEN "playtop" ELSE "play"])

\* ytdl_search returns: nothing found, or the first item is enqueued and the
\* loop is started
cmd_play_end(g, res) ==
    /\ fe_search[g] # "none"
    /\ res # None => Len(queue[g]) < MaxQueue
    /\ Cmd(g, "cmd", None,
           IF res = None
           THEN [S(g) EXCEPT !.fe_search = "none"]
           ELSE start_player_loop(
                    [Touch(S(g)) EXCEPT
                        !.queue = q_add(@, res, fe_search[g] = "playtop"),
                        !.fe_search = "none"]))

cmd_skip(g) ==
    /\ CbRoom(g)
    /\ Cmd(g, "cmd", None,
           IF voice[g] # "none" /\ playing[g] # None
           THEN VoiceStop(Touch(S(g)))
           ELSE Touch(S(g)))

cmd_stop(g) ==
    /\ CbRoom(g)
    /\ Cmd(g, "cmd", None,
           IF voice[g] # "none"
           THEN VoiceStop([Touch(S(g)) EXCEPT !.queue = <<>>, !.current = None])
           ELSE [Touch(S(g)) EXCEPT !.queue = <<>>, !.current = None])

cmd_remove(g, index) ==
    Cmd(g, "cmd", None,
        [Touch(S(g)) EXCEPT !.queue = q_remove(@, index)])

cmd_move(g, src, dst) ==
    Cmd(g, "cmd", None,
        [Touch(S(g)) EXCEPT !.queue = q_move(@, src, dst)])

cmd_clear(g) ==
    Cmd(g, "cmd", None, [Touch(S(g)) EXCEPT !.queue = <<>>])

cmd_loop(g, mode) ==
    Cmd(g, "cmd", None, [Touch(S(g)) EXCEPT !.loop_mode = mode])

cmd_shuffle(g, sh) ==
    Cmd(g, "cmd", None, [Touch(S(g)) EXCEPT !.queue = sh])

cmd_volume(g, level) ==
    Cmd(g, "cmd", None, set_volume(Touch(S(g)), level))
\* -------------------------------------------------- MusicPower._apply_control
Ev(a, p) == [action |-> a, payload |-> p]

\* mutant: a record without a guild id goes to a default guild
GidOf_Default(payload) == GetOr(payload, "guild_id", JInt(7))

\* mutant: the id is also accepted under session_id
GidOf_EitherKey(payload) ==
    IF Truthy(PGet(payload, "guild_id"))
    THEN PGet(payload, "guild_id")
    ELSE GetOr(payload, "session_id", JInt(0))

\* Line 437: the guild id is read from the key guild_id only
GidOf(payload) == GetOr(payload, "guild_id", JInt(0))

\* str(x) of a mode value
StrOf(x) == IF x.t = "str" THEN x.v ELSE "<number>"

\* Lines 468-471: int(level or 100), 100 when int() raises
LevelOf(payload) ==
    IF IntOk(GetOr(payload, "level", JInt(DefaultVolume)))
    THEN IntVal(GetOr(payload, "level", JInt(DefaultVolume)))
    ELSE DefaultVolume

SimpleActions == {"pause", "resume", "skip", "stop", "shuffle", "leave", "clear"}

\* Lines 443-497 on the player s; sh is the order a shuffle leaves. pause and
\* resume act on the voice client only. play/playtop write after their await
\* (CtlSearchStep). A raising int() leaves the handler with nothing written.
CtlStep(action, payload, s, sh) ==
    IF action \in SimpleActions
    THEN IF action = "pause" /\ s.voice # "none" /\ s.playing # None
         THEN s
         ELSE IF action = "resume" /\ s.voice # "none" /\ s.playing # None
         THEN s
         ELSE IF action = "skip" /\ s.voice # "none"
         THEN VoiceStop(s)
         ELSE IF action = "stop" /\ s.voice # "none"
         THEN VoiceStop([s EXCEPT !.queue = <<>>, !.current = None])
         ELSE IF action = "shuffle"
         THEN [s EXCEPT !.queue = sh]
         ELSE IF action = "leave"
         THEN disconnect(s, "ctl")
         ELSE IF action = "clear"
         THEN [s EXCEPT !.queue = <<>>]
         ELSE s
    ELSE IF action = "loop"
    THEN [s EXCEPT !.loop_mode = StrOf(GetOr(payload, "mode", JStr("off")))]
    ELSE IF action = "volume"
    THEN set_volume(s, LevelOf(payload))
    ELSE IF action = "queue_remove"
    THEN IF IntOk(GetOr(payload, "index", JInt(0)))
         THEN [s EXCEPT !.queue = q_remove(@, IntVal(GetOr(payload, "index", JInt(0))))]
         ELSE s
    ELSE IF action = "queue_move"
    THEN IF IntOk(GetOr(payload, "src", JInt(0))) /\ IntOk(GetOr(payload, "dst", JInt(0)))
         THEN [s EXCEPT !.queue = q_move(@, IntVal(GetOr(payload, "src", JInt(0))),
                                            IntVal(GetOr(payload, "dst", JInt(0))))]
         ELSE s
    ELSE s

\* where _apply_control suspends: play/playtop with a query in ytdl_search,
\* leave in voice.disconnect when a voice client is connected
CtlSuspends(action, payload, s) ==
    IF action \in {"play", "playtop"}
    THEN IF Truthy(PGet(payload, "query")) THEN "search" ELSE "no"
    ELSE IF action = "leave" /\ s.voice = "up" THEN "disc" ELSE "no"

\* _apply_control(evt) up to its first suspension; `done` is where the
\* ingestor continues when the handler returns (or raises) without suspending;
\* with `noted`, `last` records the record and the queue it found instead of
\* the action's mark
ApplyControlAs(evt, done, noted) ==
    LET action == Lower(evt.action)
        payload == evt.payload
        gidv == GidOf(payload)
    IN  IF ~IntOk(gidv) \/ IntVal(gidv) = 0
        THEN /\ UNCHANGED sessVars
             /\ ctl_pc' = done
             /\ UNCHANGED ctl_evt
             /\ SetLast("ApplyControl", IF noted THEN [q |-> <<>>, evt |-> evt]
                                               ELSE "dropped")
        ELSE LET g == IntVal(gidv)
                 susp == CtlSuspends(action, payload, S(g))
             IN  /\ action \in {"skip", "stop", "leave"} => CbRoom(g)
                 /\ susp = "disc" => disc[g] = "none"
                 /\ susp # "no" => Suspended < MaxSuspended
                 /\ \E sh \in (IF action = "shuffle" THEN Shuffles(queue[g])
                                                      ELSE {queue[g]}) :
                        Install(g, CtlStep(action, payload, Touch(S(g)), sh))
                 /\ ctl_pc' = IF susp = "no" THEN done ELSE susp
                 /\ ctl_evt' = IF susp = "no" THEN ctl_evt ELSE evt
                 /\ SetLast("ApplyControl",
                            IF noted THEN [q |-> queue[g], evt |-> evt]
                                     ELSE Mark(action))

ApplyControl(evt, done) == ApplyControlAs(evt, done, FALSE)

NoEvt == Ev("", <<>>)

\* Lines 480-485 after ytdl_search: the first item, if any, is enqueued with
\* the requester int(user_id or 0), then the loop is started; a raising int()
\* leaves the handler before start_player_loop
CtlSearchStep(action, payload, s, res) ==
    IF res = None
    THEN start_player_loop(s)
    ELSE IF ~IntOk(GetOr(payload, "user_id", JInt(0)))
         THEN s
         ELSE start_player_loop(
                  [s EXCEPT !.queue = q_add(@, res, action = "playtop")])

AfterSuspend == IF ctl_lines = <<>> THEN "sleep" ELSE "batch"
AfterLine == IF Tail(ctl_lines) = <<>> THEN "sleep" ELSE "batch"

CtlSearchDone(res) ==
    /\ ctl_pc = "search"
    /\ ~Running
    /\ res # None => Len(queue[IntVal(GidOf(ctl_evt.payload))]) < MaxQueue
    /\ Install(IntVal(GidOf(ctl_evt.payload)),
               CtlSearchStep(Lower(ctl_evt.action), ctl_evt.payload,
                             Touch(S(IntVal(GidOf(ctl_evt.payload)))), res))
    /\ ctl_pc' = AfterSuspend
    /\ ctl_evt' = NoEvt
    /\ SetLast("CtlSearchDone", None)
    /\ UNCHANGED <<ltrack, lock, broken, exported, ctl_lines, logVars>>

\* the control-log leave resumes after voice.disconnect
CtlDisconnectEnd ==
    /\ ctl_pc = "disc"
    /\ ~Running
    /\ Install(IntVal(GidOf(ctl_evt.payload)),
               disconnect_end(S(IntVal(GidOf(ctl_evt.payload)))))
    /\ ctl_pc' = AfterSuspend
    /\ ctl_evt' = NoEvt
    /\ SetLast("DisconnectEnd",
               IF dirty[IntVal(GidOf(ctl_evt.payload))] THEN "dirty" ELSE "clean")
    /\ UNCHANGED <<ltrack, lock, broken, exported, ctl_lines, logVars>>

\* ------------------------------------------------------------- export_state
\* mutant: the whole queue is exported
Prefix_All(q, limit) == q

\* [x][:limit]
Prefix(q, limit) == SubSeq(q, 1, IF Len(q) < limit THEN Len(q) ELSE limit)

\* export_state(self.players): one entry per player, written to the state file
ExportState ==
    /\ ~Running
    /\ exported' = [g \in players |->
                       [title |-> current[g], volume |-> volume[g],
                        loop |-> loop_mode[g], queue_len |-> Len(queue[g]),
                        queue |-> Prefix(queue[g], QueueExportLimit)]]
    /\ SetLast("Export", None)
    /\ UNCHANGED <<sessVars, ltrack, lock, broken, ctlVars, logVars>>

\* export_state when path.write_text raises: the exception is swallowed
\* (lines 342-345) and the state file keeps what it held
ExportStateFails ==
    /\ ~Running
    /\ SetLast("ExportFailed", None)
    /\ UNCHANGED <<sessVars, ltrack, lock, broken, exported, ctlVars, logVars>>

\* ---------------------------------------------------- the control log file
NL == [r |-> 0, k |-> 0]
Byte(r, k) == [r |-> r, k |-> k]

\* bytes after the last terminator: the record the writer is still writing
RECURSIVE TailLen(_)
TailLen(bytes) ==
    IF bytes = <<>> \/ bytes[Len(bytes)] = NL
    THEN 0
    ELSE 1 + TailLen(SubSeq(bytes, 1, Len(bytes) - 1))

\* The external writer appends the next byte of the record it is writing:
\* the first byte of a new record, a further content byte, or the terminator.
Write(e) ==
    /\ ~Running
    /\ IF TailLen(log) = 0
       THEN /\ Len(recs) < MaxRecs
            /\ recs' = Append(recs, e)
            /\ log' = Append(log, Byte(Len(recs) + 1, 1))
       ELSE /\ e = recs[Len(recs)]
            /\ recs' = recs
            /\ log' = Append(log, IF TailLen(log) < RecLen
                                  THEN Byte(Len(recs), TailLen(log) + 1)
                                  ELSE NL)
    /\ SetLast("Write", None)
    /\ UNCHANGED <<sessVars, ltrack, lock, broken, exported, ctlVars, control_pos,
                   attach_pos, applied>>

\* the bytes of record r without its terminator
RecLine(r) == [k \in 1..RecLen |-> Byte(r, k)]

\* The external writer appends a whole record and its terminator in one
\* write, up to n records.
WriteUpTo(e, n) ==
    /\ ~Running
    /\ TailLen(log) = 0
    /\ Len(recs) < n
    /\ recs' = Append(recs, e)
    /\ log' = log \o RecLine(Len(recs) + 1) \o <<NL>>
    /\ SetLast("Write", None)
    /\ UNCHANGED <<sessVars, ltrack, lock, broken, exported, ctlVars, control_pos,
                   attach_pos, applied>>

WriteRecord(e) == WriteUpTo(e, MaxRecs)

\* bytes.splitlines() on the terminator: an unterminated tail is a line too
RECURSIVE SplitLines(_, _)
SplitLines(bytes, line) ==
    IF bytes = <<>>
    THEN IF line = <<>> THEN <<>> ELSE <<line>>
    ELSE IF Head(bytes) = NL
         THEN <<line>> \o SplitLines(Tail(bytes), <<>>)
         ELSE SplitLines(Tail(bytes), Append(line, Head(bytes)))

\* json.loads(line): only the complete encoding of a record is a JSON text
DecodeOk(line) ==
    /\ Len(line) = RecLen
    /\ \A i \in 1..Len(line) : line[i].k = i /\ line[i].r = line[1].r
    /\ recs[line[1].r].action # "<garbage>"
Decode(line) == recs[line[1].r]

\* mutant: the ingestor starts at the beginning of the file
Attach_FromStart ==
    /\ ctl_pc = "detached"
    /\ ~Running
    /\ control_pos' = 0
    /\ attach_pos' = Len(log)
    /\ ctl_pc' = "sleep"
    /\ SetLast("Attach", None)
    /\ UNCHANGED <<sessVars, ltrack, lock, broken, exported, ctl_lines, ctl_evt, log,
                   recs, applied>>

\* Lines 405-410: the ingestor starts at the current end of the file
Attach ==
    /\ ctl_pc = "detached"
    /\ ~Running
    /\ control_pos' = Len(log)
    /\ attach_pos' = Len(log)
    /\ ctl_pc' = "sleep"
    /\ SetLast("Attach", None)
    /\ UNCHANGED <<sessVars, ltrack, lock, broken, exported, ctl_lines, ctl_evt, log,
                   recs, applied>>

\* Lines 414-422: read from the offset to the end of the file, move the
\* offset to the end, split what was read into lines
TickRead ==
    /\ ctl_pc = "sleep"
    /\ ~Running
    /\ control_pos' = Len(log)
    /\ ctl_lines' = SplitLines(SubSeq(log, control_pos + 1, Len(log)), <<>>)
    /\ ctl_pc' = IF control_pos = Len(log) THEN "sleep" ELSE "batch"
    /\ SetLast("TickRead", None)
    /\ UNCHANGED <<sessVars, ltrack, lock, broken, exported, ctl_evt, log, recs,
                   attach_pos, applied>>

\* mutant: a line that does not decode ends the batch
TickApply_AbortBatch ==
    /\ ctl_pc = "batch"
    /\ IF ~DecodeOk(Head(ctl_lines))
       THEN /\ ctl_lines' = <<>>
            /\ ctl_pc' = "sleep"
            /\ SetLast("TickSkip", None)
            /\ UNCHANGED <<sessVars, ctl_evt, applied>>
       ELSE /\ ctl_lines' = Tail(ctl_lines)
            /\ applied' = Append(applied, Head(ctl_lines)[1].r)
            /\ ApplyControl(Decode(Head(ctl_lines)), AfterLine)
    /\ UNCHANGED <<ltrack, lock, broken, exported, control_pos, log, recs, attach_pos>>

\* mutant: the handler is started as a task of its own and the batch goes on
\* while it is suspended
TickApply_NoAwait ==
    /\ ctl_pc \in {"batch", "search"}
    /\ ctl_lines # <<>>
    /\ ctl_lines' = Tail(ctl_lines)
    /\ IF ~DecodeOk(Head(ctl_lines))
       THEN /\ ctl_pc' = IF ctl_pc = "search" THEN "search" ELSE AfterLine
            /\ SetLast("TickSkip", None)
            /\ UNCHANGED <<sessVars, ctl_evt, applied>>
       ELSE /\ applied' = Append(applied, Head(ctl_lines)[1].r)
            /\ ApplyControl(Decode(Head(ctl_lines)),
                            IF ctl_pc = "search" THEN "search" ELSE AfterLine)
    /\ UNCHANGED <<ltrack, lock, broken, exported, control_pos, log, recs, attach_pos>>

\* Lines 422-427: the next line of the batch is decoded and applied; a line
\* that does not decode is skipped
TickApply ==
    /\ ctl_pc = "batch"
    /\ ctl_lines' = Tail(ctl_lines)
    /\ IF ~DecodeOk(Head(ctl_lines))
       THEN /\ ctl_pc' = AfterLine
            /\ SetLast("TickSkip", None)
            /\ UNCHANGED <<sessVars, ctl_evt, applied>>
       ELSE /\ applied' = Append(applied, Head(ctl_lines)[1].r)
            /\ ApplyControl(Decode(Head(ctl_lines)), AfterLine)
    /\ UNCHANGED <<ltrack, lock, broken, exported, control_pos, log, recs, attach_pos>>

\* A tick whose batch is the one complete record evt
ControlCmd(evt) ==
    /\ ctl_pc = "sleep"
    /\ ~Running
    /\ ApplyControl(evt, "sleep")
    /\ UNCHANGED <<ltrack, lock, broken, exported, ctl_lines, logVars>>

\* ------------------------------------------------------------ specifications
G(g) == [guild_id |-> JInt(g)]

\* the records the dashboard sends to a guild
EventsFor(g) ==
    {Ev(a, G(g)) : a \in SimpleActions \cup {"STOP", "nop"}}
    \cup {Ev("loop", G(g) @@ [mode |-> JStr(m)]) : m \in Modes}
    \cup {Ev("loop", G(g))}
    \cup {Ev(a, G(g) @@ [query |-> JStr("q"), user_id |-> JInt(1)]) :
              a \in {"play", "playtop"}}
    \cup {Ev("queue_remove", G(g) @@ [index |-> JInt(i)]) : i \in {0, 2}}
    \cup {Ev("queue_move", G(g) @@ [src |-> JInt(2), dst |-> JInt(j)]) :
              j \in {0, 1}}

CtlEvents == UNION {EventsFor(g) : g \in FrontGuilds}

\* the records the writer appends in the log specification
VolGuild == Ev("volume", [guild_id |-> JInt(7), level |-> JInt(500)])
VolSession == Ev("volume", [session_id |-> JInt(7), level |-> JInt(500)])
LoopQueue == Ev("loop", [guild_id |-> JInt(8), mode |-> JStr("queue")])
LogEvents == {VolGuild, VolSession, LoopQueue}

\* GuildPlayer.__init__ for every guild, no player created yet
FreshPlayers ==
    /\ players = {}
    /\ queue = [g \in Gids |-> <<>>]
    /\ current = [g \in Gids |-> None]
    /\ volume = [g \in Gids |-> DefaultVolume]
    /\ loop_mode = [g \in Gids |-> "off"]
    /\ voice = [g \in Gids |-> "none"]
    /\ vc_ready = [g \in Gids |-> FALSE]
    /\ next_event = [g \in Gids |-> FALSE]
    /\ lock = [g \in Gids |-> "free"]
    /\ pc = [g \in Gids |-> "none"]
    /\ tasks = [g \in Gids |-> 0]
    /\ ltrack = [g \in Gids |-> None]
    /\ playing = [g \in Gids |-> None]
    /\ cb = [g \in Gids |-> 0]
    /\ fe_search = [g \in Gids |-> "none"]
    /\ disc = [g \in Gids |-> "none"]
    /\ dirty = [g \in Gids |-> FALSE]

\* MusicPower.__init__, an empty control file and no state file written yet
EmptyLog ==
    /\ exported = <<>>
    /\ ctl_lines = <<>>
    /\ ctl_evt = NoEvt
    /\ control_pos = 0
    /\ log = <<>>
    /\ recs = <<>>
    /\ attach_pos = 0
    /\ applied = <<>>

\* the state after construction
Init ==
    /\ FreshPlayers
    /\ EmptyLog
    /\ ctl_pc = "detached"
    /\ broken = {}
    /\ last = [op |-> "Init", arg |-> None]

Next ==
    \/ \E g \in FrontGuilds :
          \/ LoopTop(g)
          \/ LoopPlay(g)
          \/ \E ok \in BOOLEAN : LoopExtractDone(g, ok)
          \/ LoopWake(g)
          \/ LoopDispatch(g)
          \/ TrackEnds(g)
          \/ AfterPlay(g)
          \/ cmd_join(g)
          \/ cmd_leave(g)
          \/ DisconnectEnd(g)
          \/ \E top \in BOOLEAN : cmd_play_begin(g, top)
          \/ \E res \in Tracks \cup {None} : cmd_play_end(g, res)
          \/ cmd_skip(g)
          \/ cmd_stop(g)
          \/ \E i \in Indexes : cmd_remove(g, i)
          \/ \E i \in Indexes, j \in Indexes : cmd_move(g, i, j)
          \/ cmd_clear(g)
          \/ \E m \in Modes : cmd_loop(g, m)
          \/ \E sh \in Shuffles(queue[g]) : cmd_shuffle(g, sh)
    \/ \E evt \in CtlEvents : ControlCmd(evt)
    \/ \E res \in Tracks \cup {None} : CtlSearchDone(res)
    \/ CtlDisconnectEnd

\* the cog loaded and the ingestor attached to an empty control file
InitServing ==
    /\ FreshPlayers
    /\ EmptyLog
    /\ ctl_pc = "sleep"
    /\ broken = {}
    /\ last = [op |-> "Attach", arg |-> None]

Spec == InitServing /\ [][Next]_vars

\* the control log: the writer, the attach and the ticks, next to the
\* /music volume command
NextLog ==
    \/ \E e \in LogEvents : Write(e)
    \/ Attach
    \/ TickRead
    \/ TickApply
    \/ \E g \in FrontGuilds, level \in Levels : cmd_volume(g, level)

SpecLog == Init /\ [][NextLog]_vars

\* The dashboard's volume and loop records, and records that name no guild,
\* written whole to the control file of a serving cog, next to the slash
\* commands /music volume and /music loop.
Vol(l) == Ev("volume", G(7) @@ [level |-> l])
VolEvents ==
    {Vol(JInt(n)) : n \in {-5, 0, 150, 500}} \cup {Vol(JStr("x")), Ev("volume", G(7))}
LoopEvents ==
    {Ev("loop", G(7) @@ [mode |-> m]) : m \in {JStr("track"), JStr("bogus"), JInt(5)}}
    \cup {Ev("loop", G(7))}
NoGidEvents ==
    {Ev("volume", [level |-> JInt(150)]),
     Ev("volume", [guild_id |-> JNull, level |-> JInt(150)]),
     Ev("loop", [guild_id |-> JInt(0), mode |-> JStr("queue")])}
PanelEvents == VolEvents \cup LoopEvents \cup NoGidEvents

NextPanel ==
    \/ \E e \in PanelEvents : WriteRecord(e)
    \/ TickRead
    \/ TickApply
    \/ \E g \in FrontGuilds, level \in Levels : cmd_volume(g, level)
    \/ \E g \in FrontGuilds, m \in Modes : cmd_loop(g, m)

SpecPanel == InitServing /\ [][NextPanel]_vars

\* The queue editors: guild 7 is joined and plays A, its loop waits for the
\* completion; the pending queue is any sequence of at most MaxEdit tracks.
QSeqs == UNION {[1..n -> QTracks] : n \in 0..MaxEdit}
EditIndexes == (0 - 1)..(MaxEdit + 1)

InitQueue ==
    /\ players = {7}
    /\ queue \in [Gids -> QSeqs]
    /\ queue[8] = <<>>
    /\ current = [g \in Gids |-> IF g = 7 THEN "A" ELSE None]
    /\ volume = [g \in Gids |-> DefaultVolume]
    /\ loop_mode = [g \in Gids |-> "off"]
    /\ voice = [g \in Gids |-> IF g = 7 THEN "up" ELSE "none"]
    /\ vc_ready = [g \in Gids |-> g = 7]
    /\ next_event = [g \in Gids |-> FALSE]
    /\ lock = [g \in Gids |-> "free"]
    /\ pc = [g \in Gids |-> IF g = 7 THEN "await" ELSE "none"]
    /\ tasks = [g \in Gids |-> IF g = 7 THEN 1 ELSE 0]
    /\ ltrack = [g \in Gids |-> None]
    /\ playing = [g \in Gids |-> IF g = 7 THEN "A" ELSE None]
    /\ cb = [g \in Gids |-> 0]
    /\ fe_search = [g \in Gids |-> "none"]
    /\ disc = [g \in Gids |-> "none"]
    /\ dirty = [g \in Gids |-> FALSE]
    /\ EmptyLog
    /\ ctl_pc = "sleep"
    /\ broken = {}
    /\ last = [op |-> "Init", arg |-> None]

\* cmd_move, cmd_remove and cmd_shuffle with `last` recording the queue they
\* found, their arguments and what q_move and q_remove returned
EditMove(g, src, dst) ==
    Cmd(g, "q_move",
        [q |-> queue[g], src |-> src, dst |-> dst,
         ret |-> q_move_ok(queue[g], src, dst)],
        [Touch(S(g)) EXCEPT !.queue = q_move(@, src, dst)])

EditRemove(g, index) ==
    Cmd(g, "q_remove",
        [q |-> queue[g], index |-> index, ret |-> q_removed(queue[g], index)],
        [Touch(S(g)) EXCEPT !.queue = q_remove(@, index)])

EditShuffle(g, sh) ==
    Cmd(g, "q_shuffle", [q |-> queue[g]], [Touch(S(g)) EXCEPT !.queue = sh])

\* a tick whose batch is the one complete record evt, with `last` recording
\* the record and the queue it found
PanelEdit(evt) ==
    /\ ctl_pc = "sleep"
    /\ ~Running
    /\ ApplyControlAs(evt, "sleep", TRUE)
    /\ UNCHANGED <<ltrack, lock, broken, exported, ctl_lines, logVars>>

MoveEvents ==
    {Ev("queue_move", G(7) @@ [src |-> JInt(i), dst |-> JInt(j)]) :
         i \in EditIndexes, j \in EditIndexes}
    \cup {Ev("queue_move", G(7) @@ [dst |-> JInt(1)])}
RemoveEvents ==
    {Ev("queue_remove", G(7) @@ [index |-> JInt(i)]) : i \in EditIndexes \cup {99}}
    \cup {Ev("queue_remove", G(7))}
ShuffleEvent == Ev("shuffle", G(7))

NextQueue ==
    \/ \E g \in FrontGuilds, src \in EditIndexes, dst \in EditIndexes :
           EditMove(g, src, dst)
    \/ \E g \in FrontGuilds, index \in EditIndexes : EditRemove(g, index)
    \/ \E evt \in MoveEvents \cup RemoveEvents : PanelEdit(evt)

SpecQueue == InitQueue /\ [][NextQueue]_vars

\* shuffles next to the periodic export of the state file
NextShuffle ==
    \/ \E g \in FrontGuilds : \E sh \in Shuffles(queue[g]) : EditShuffle(g, sh)
    \/ PanelEdit(ShuffleEvent)
    \/ ExportState

SpecShuffle == InitQueue /\ [][NextShuffle]_vars

\* The export next to a queue around the export limit: guild 7 plays A in
\* any repeat mode, its pending queue is short or has one item less than,
\* as many as, or one item more than the limit; the queue is cleared, the
\* volume is set and the state file is written.
LongQueue(n) == [i \in 1..n |-> IF i % 2 = 1 THEN "B" ELSE "C"]
ExportQueues ==
    {<<>>, <<"B">>}
    \cup {LongQueue(n) : n \in (QueueExportLimit - 1)..(QueueExportLimit + 1)}

InitExport ==
    /\ players = {7}
    /\ queue \in [Gids -> ExportQueues]
    /\ queue[8] = <<>>
    /\ current = [g \in Gids |-> IF g = 7 THEN "A" ELSE None]
    /\ volume = [g \in Gids |-> DefaultVolume]
    /\ loop_mode \in [Gids -> Modes]
    /\ loop_mode[8] = "off"
    /\ voice = [g \in Gids |-> IF g = 7 THEN "up" ELSE "none"]
    /\ vc_ready = [g \in Gids |-> g = 7]
    /\ next_event = [g \in Gids |-> FALSE]
    /\ lock = [g \in Gids |-> "free"]
    /\ pc = [g \in Gids |-> IF g = 7 THEN "await" ELSE "none"]
    /\ tasks = [g \in Gids |-> IF g = 7 THEN 1 ELSE 0]
    /\ ltrack = [g \in Gids |-> None]
    /\ playing = [g \in Gids |-> IF g = 7 THEN "A" ELSE None]
    /\ cb = [g \in Gids |-> 0]
    /\ fe_search = [g \in Gids |-> "none"]
    /\ disc = [g \in Gids |-> "none"]
    /\ dirty = [g \in Gids |-> FALSE]
    /\ EmptyLog
    /\ ctl_pc = "sleep"
    /\ broken = {}
    /\ last = [op |-> "Init", arg |-> None]

NextExport ==
    \/ ExportState
    \/ ExportStateFails
    \/ \E g \in FrontGuilds : cmd_clear(g)
    \/ \E g \in FrontGuilds, level \in Levels : cmd_volume(g, level)

SpecExport == InitExport /\ [][NextExport]_vars

\* Batches: up to MaxBatch whole records - a loop record, a volume record, a
\* play that suspends in its search, a queue_remove whose int() raises and
\* a line that is no JSON - are written to the control file of a serving cog.
LoopTrack == Ev("loop", G(7) @@ [mode |-> JStr("track")])
PlayQ == Ev("play", G(7) @@ [query |-> JStr("q"), user_id |-> JInt(1)])
RaisingRec == Ev("queue_remove", G(7) @@ [index |-> JStr("x")])
Garbage == Ev("<garbage>", <<>>)
BatchEvents == {LoopTrack, Vol(JInt(150)), PlayQ, RaisingRec, Garbage}

NextBatch ==
    \/ \E e \in BatchEvents : WriteUpTo(e, MaxBatch)
    \/ TickRead
    \/ TickApply
    \/ \E res \in Tracks \cup {None} : CtlSearchDone(res)

SpecBatch == InitServing /\ [][NextBatch]_vars

\* Two sessions side by side: guild 7 runs under repeat mode auto, guild 8
\* under off; both are joined with the same pending queue and their loops
\* sleep. Every operation - a step of the loop, the end of a source, its
\* callback, an enqueue at the tail or the head, a skip, a stop - is applied
\* to both sessions in the same step; it is enabled by the state of guild 7.
TwinOps == {"top", "play", "found", "failed", "wake", "dispatch", "ends",
            "after", "append", "front", "skip", "stop"}

TwinReady(op) ==
    CASE op = "top" -> LoopTopReady(7)
      [] op = "play" -> pc[7] = "play"
      [] op \in {"found", "failed"} -> pc[7] = "extract" /\ ~Running
      [] op = "wake" -> pc[7] = "await" /\ next_event[7] /\ ~Running
      [] op = "dispatch" -> pc[7] = "dispatch"
      [] op = "ends" -> playing[7] # None /\ cb[7] < MaxCb /\ ~Running
      [] op = "after" -> cb[7] > 0 /\ ~Running
      [] op \in {"append", "front"} -> Len(queue[7]) < MaxQueue /\ ~Running
      [] op \in {"skip", "stop"} -> CbRoom(7) /\ ~Running

\* the operation on the player s, whose loop holds lt in its local `track`
TwinApply(op, t, s, lt) ==
    CASE op = "top" -> LoopTopStep(s)
      [] op = "play" ->
            IF s.voice = "none" \/ s.current = None
            THEN [s EXCEPT !.pc = AwaitPc(s.next_event)]
            ELSE [s EXCEPT !.pc = "extract"]
      [] op = "found" -> ExtractDoneStep(s, lt, TRUE)
      [] op = "failed" -> ExtractDoneStep(s, lt, FALSE)
      [] op = "wake" -> [s EXCEPT !.pc = "dispatch"]
      [] op = "dispatch" -> DispatchStep(s)
      [] op = "ends" -> VoiceStop(s)
      [] op = "after" -> [s EXCEPT !.next_event = TRUE, !.cb = @ - 1]
      [] op = "append" ->
            start_player_loop([Touch(s) EXCEPT !.queue = q_add(@, t, FALSE)])
      [] op = "front" ->
            start_player_loop([Touch(s) EXCEPT !.queue = q_add(@, t, TRUE)])
      [] op = "skip" ->
            IF s.voice # "none" /\ s.playing # None
            THEN VoiceStop(Touch(s))
            ELSE Touch(s)
      [] op = "stop" ->
            IF s.voice # "none"
            THEN VoiceStop([Touch(s) EXCEPT !.queue = <<>>, !.current = None])
            ELSE [Touch(s) EXCEPT !.queue = <<>>, !.current = None]

TwinTrack(op, s, lt) ==
    IF op = "play"
    THEN IF s.voice = "none" \/ s.current = None THEN lt ELSE s.current
    ELSE IF op \in {"found", "failed"} THEN None ELSE lt

\* the writes r[g] to every player g
InstallAll(r) ==
    /\ UNCHANGED players
    /\ queue' = [g \in Gids |-> r[g].queue]
    /\ current' = [g \in Gids |-> r[g].current]
    /\ volume' = [g \in Gids |-> r[g].volume]
    /\ loop_mode' = [g \in Gids |-> r[g].loop_mode]
    /\ voice' = [g \in Gids |-> r[g].voice]
    /\ vc_ready' = [g \in Gids |-> r[g].vc_ready]
    /\ next_event' = [g \in Gids |-> r[g].next_event]
    /\ pc' = [g \in Gids |-> r[g].pc]
    /\ tasks' = [g \in Gids |-> r[g].tasks]
    /\ playing' = [g \in Gids |-> r[g].playing]
    /\ cb' = [g \in Gids |-> r[g].cb]
    /\ fe_search' = [g \in Gids |-> r[g].fe_search]
    /\ disc' = [g \in Gids |-> r[g].disc]
    /\ dirty' = [g \in Gids |-> r[g].dirty]

Twin(op, t) ==
    /\ TwinReady(op)
    /\ InstallAll([g \in Gids |-> TwinApply(op, t, S(g), ltrack[g])])
    /\ ltrack' = [g \in Gids |-> TwinTrack(op, S(g), ltrack[g])]
    /\ SetLast("Twin", [op |-> op, cur |-> current[7]])
    /\ UNCHANGED restVars

InitTwin ==
    /\ players = Gids
    /\ \E q \in {<<>>, <<"A">>, <<"A", "B">>} : queue = [g \in Gids |-> q]
    /\ current = [g \in Gids |-> None]
    /\ volume = [g \in Gids |-> DefaultVolume]
    /\ loop_mode = [g \in Gids |-> IF g = 7 THEN "auto" ELSE "off"]
    /\ voice = [g \in Gids |-> "up"]
    /\ vc_ready = [g \in Gids |-> TRUE]
    /\ next_event = [g \in Gids |-> FALSE]
    /\ lock = [g \in Gids |-> "free"]
    /\ pc = [g \in Gids |-> "sleep"]
    /\ tasks = [g \in Gids |-> 1]
    /\ ltrack = [g \in Gids |-> None]
    /\ playing = [g \in Gids |-> None]
    /\ cb = [g \in Gids |-> 0]
    /\ fe_search = [g \in Gids |-> "none"]
    /\ disc = [g \in Gids |-> "none"]
    /\ dirty = [g \in Gids |-> FALSE]
    /\ EmptyLog
    /\ ctl_pc = "sleep"
    /\ broken = {}
    /\ last = [op |-> "Init", arg |-> None]

NextTwin == \E op \in TwinOps, t \in Tracks : Twin(op, t)

SpecTwin == InitTwin /\ [][NextTwin]_vars

\* Skip-on-failure: guild 7 is joined, its loop sleeps on an empty queue
\* when B, whose extraction always fails, and then A are enqueued; the
\* repeat mode is any of the four. Tracks are appended, the repeat mode is
\* changed, and the loop, the audio player and the event loop keep running.
InitSkip ==
    /\ players = {7}
    /\ queue = [g \in Gids |-> IF g = 7 THEN <<"B", "A">> ELSE <<>>]
    /\ current = [g \in Gids |-> None]
    /\ volume = [g \in Gids |-> DefaultVolume]
    /\ loop_mode \in [Gids -> Modes]
    /\ loop_mode[8] = "off"
    /\ voice = [g \in Gids |-> IF g = 7 THEN "up" ELSE "none"]
    /\ vc_ready = [g \in Gids |-> g = 7]
    /\ next_event = [g \in Gids |-> FALSE]
    /\ lock = [g \in Gids |-> "free"]
    /\ pc = [g \in Gids |-> IF g = 7 THEN "sleep" ELSE "none"]
    /\ tasks = [g \in Gids |-> IF g = 7 THEN 1 ELSE 0]
    /\ ltrack = [g \in Gids |-> None]
    /\ playing = [g \in Gids |-> None]
    /\ cb = [g \in Gids |-> 0]
    /\ fe_search = [g \in Gids |-> "none"]
    /\ disc = [g \in Gids |-> "none"]
    /\ dirty = [g \in Gids |-> FALSE]
    /\ EmptyLog
    /\ ctl_pc = "sleep"
    /\ broken = {"B"}
    /\ last = [op |-> "cmd", arg |-> None]

LoopStep(g) ==
    \/ LoopTop(g)
    \/ LoopPlay(g)
    \/ \E ok \in BOOLEAN : LoopExtractDone(g, ok)
    \/ LoopWake(g)
    \/ LoopDispatch(g)

NextSkip ==
    \E g \in FrontGuilds :
        \/ LoopStep(g)
        \/ TrackEnds(g)
        \/ AfterPlay(g)
        \/ cmd_play_begin(g, FALSE)
        \/ \E res \in Tracks \cup {None} : cmd_play_end(g, res)
        \/ \E m \in Modes : cmd_loop(g, m)

\* Enqueue order: guild 7 is joined with an empty queue, its loop sleeps and
\* the repeat mode is any of the four. The dashboard writes play and playtop
\* records whose queries name A, B and C in that order; the search for a
\* query finds the track it names, or nothing. The loop, the audio player
\* and the event loop run; nothing else edits the queue.
OrderTracks == <<"A", "B", "C">>
Ord(t) == CHOOSE i \in 1..Len(OrderTracks) : OrderTracks[i] = t
PlayOf(a, n) ==
    Ev(a, G(7) @@ [query |-> JStr(OrderTracks[n]), user_id |-> JInt(1)])

InitOrder ==
    /\ players = {7}
    /\ queue = [g \in Gids |-> <<>>]
    /\ current = [g \in Gids |-> None]
    /\ volume = [g \in Gids |-> DefaultVolume]
    /\ loop_mode \in [Gids -> Modes]
    /\ loop_mode[8] = "off"
    /\ voice = [g \in Gids |-> IF g = 7 THEN "up" ELSE "none"]
    /\ vc_ready = [g \in Gids |-> g = 7]
    /\ next_event = [g \in Gids |-> FALSE]
    /\ lock = [g \in Gids |-> "free"]
    /\ pc = [g \in Gids |-> IF g = 7 THEN "sleep" ELSE "none"]
    /\ tasks = [g \in Gids |-> IF g = 7 THEN 1 ELSE 0]
    /\ ltrack = [g \in Gids |-> None]
    /\ playing = [g \in Gids |-> None]
    /\ cb = [g \in Gids |-> 0]
    /\ fe_search = [g \in Gids |-> "none"]
    /\ disc = [g \in Gids |-> "none"]
    /\ dirty = [g \in Gids |-> FALSE]
    /\ EmptyLog
    /\ ctl_pc = "sleep"
    /\ broken = {}
    /\ last = [op |-> "cmd", arg |-> None]

WriteOrdered(a) == WriteUpTo(PlayOf(a, Len(recs) + 1), Len(OrderTracks))

CtlSearchFound ==
    /\ ctl_pc = "search"
    /\ \E res \in {None, ctl_evt.payload.query.v} : CtlSearchDone(res)

NextOrder ==
    \/ \E a \in {"play", "playtop"} : WriteOrdered(a)
    \/ TickRead
    \/ TickApply
    \/ CtlSearchFound
    \/ \E g \in FrontGuilds :
          \/ LoopStep(g)
          \/ TrackEnds(g)
          \/ AfterPlay(g)

SpecOrder == InitOrder /\ [][NextOrder]_vars

\* Keeping tracks: guild 7 is joined with an empty queue and a sleeping loop
\* in any repeat mode. Tracks are enqueued at the tail and the head, moved,
\* shuffled, removed by index and skipped, the repeat mode is changed, the
\* guild is left and joined again, and the loop, the audio player and the
\* event loop run.
KeepIndexes == 1..MaxQueue

NextKeep ==
    \E g \in FrontGuilds :
        \/ LoopStep(g)
        \/ TrackEnds(g)
        \/ AfterPlay(g)
        \/ cmd_join(g)
        \/ cmd_leave(g)
        \/ DisconnectEnd(g)
        \/ \E top \in BOOLEAN : cmd_play_begin(g, top)
        \/ \E res \in Tracks \cup {None} : cmd_play_end(g, res)
        \/ cmd_skip(g)
        \/ \E m \in Modes : cmd_loop(g, m)
        \/ \E src \in KeepIndexes, dst \in KeepIndexes : EditMove(g, src, dst)
        \/ \E index \in KeepIndexes : EditRemove(g, index)
        \/ \E sh \in Shuffles(queue[g]) : EditShuffle(g, sh)

SpecKeep == InitOrder /\ [][NextKeep]_vars

\* the same with asyncio running every task that is ready: the loop's sleeps
\* and extractions end, the ingestor's run reaches its next await, every
\* source handed to the audio player ends and its callback is run
SpecPoll ==
    /\ InitOrder
    /\ [][NextOrder]_vars
    /\ WF_vars(TickApply)
    /\ \A g \in FrontGuilds :
          /\ WF_vars(LoopStep(g))
          /\ WF_vars(TrackEnds(g))
          /\ WF_vars(AfterPlay(g))

\* asyncio runs every task that is ready; sleeps, extractions and the audio
\* player's sources end
SpecSkip ==
    /\ InitSkip
    /\ [][NextSkip]_vars
    /\ \A g \in FrontGuilds :
          /\ WF_vars(LoopStep(g))
          /\ WF_vars(TrackEnds(g))
          /\ WF_vars(AfterPlay(g))

\* ================================================================ properties
Attached == ctl_pc # "detached"
FirstByte(r) == (r - 1) * (RecLen + 1) + 1
Terminator(r) == r * (RecLen + 1)
Count(seq, x) == Cardinality({i \in 1..Len(seq) : seq[i] = x})
LastOf(seq) == seq[Len(seq)]

\* C1 (as claimed): a record begun after the attach and still without its
\* terminator is not consumed (the offset stays before its first byte), and a
\* record written after the attach, once the ingestor has read past its
\* terminator and finished the batch, has been applied exactly once -
\* however its bytes were split across ticks.
C1_PartialRecordKept ==
    Attached =>
        /\ (TailLen(log) > 0 /\ Len(log) - TailLen(log) >= attach_pos)
               => control_pos <= Len(log) - TailLen(log)
        /\ \A r \in 1..Len(recs) :
               (/\ FirstByte(r) > attach_pos
                /\ ctl_pc = "sleep"
                /\ control_pos >= Terminator(r))
               => Count(applied, r) = 1

C2_GuardHeld ==
    [][\A g \in Gids :
          (queue'[g] # queue[g] \/ current'[g] # current[g])
          => lock[g] # "free"]_vars

LoopOps == {"LoopTop", "Pop", "LoopPlay", "Skip", "PlayRaised", "Played",
            "LoopWake", "Dispatch"}

\* C5: the dispatch after a completion in repeat mode queue with a current
\* track X appends X to the queue (the rest in place, one longer) and leaves
\* no current track; the loop's next pass with a ready voice client and no
\* current track makes the head of the queue current and removes it.
C5_RepeatQueue ==
    [][\A g \in Gids :
          /\ (pc[g] = "dispatch" /\ loop_mode[g] = "queue" /\ current[g] # None)
                => /\ queue'[g] = Append(queue[g], current[g])
                   /\ Len(queue'[g]) = Len(queue[g]) + 1
                   /\ current'[g] = None
                   /\ pc'[g] = "top"
          /\ (pc[g] = "top" /\ vc_ready[g] /\ current[g] = None /\ queue[g] # <<>>)
                => /\ current'[g] = Head(queue[g])
                   /\ queue'[g] = Tail(queue[g])]_vars

\* completion with current = A, queue = [B] has given queue [B, A]
C5_Witness ==
    /\ last = [op |-> "Dispatch", arg |-> "queue"]
    /\ pc[7] = "top"
    /\ queue[7] = <<"B", "A">>
    /\ current[7] = None

\* C6: in repeat mode track with a current track, no step of the loop - the
\* dispatch after a completion and the pass that follows it - changes the
\* current track or the queue; the track is taken for extraction again and
\* what is handed to the voice client is that track.
C6_RepeatTrack ==
    [][\A g \in Gids :
          /\ (loop_mode[g] = "track" /\ current[g] # None /\ last'.op \in LoopOps
               /\ pc'[g] # pc[g])
                => (current'[g] = current[g] /\ queue'[g] = queue[g])
          /\ (pc[g] = "dispatch" /\ loop_mode[g] = "track" /\ current[g] # None)
                => pc'[g] = "top"
          /\ (pc[g] = "play" /\ voice[g] # "none" /\ current[g] # None)
                => ltrack'[g] = current[g]
          /\ (pc[g] = "extract" /\ last'.op = "Played")
                => playing'[g] = ltrack[g]]_vars

\* a completion in repeat mode track has left A current and B queued
C6_Witness ==
    /\ last = [op |-> "Dispatch", arg |-> "track"]
    /\ current[7] = "A"
    /\ queue[7] = <<"B">>

\* a teardown of guild 7 has run to its end with no other command meanwhile
TeardownDone ==
    \/ last.op = "Disconnect"
    \/ last = [op |-> "DisconnectEnd", arg |-> "clean"]
    \/ last = [op |-> "ApplyControl", arg |-> "leave"] /\ ctl_pc # "disc"

\* C8 (as claimed): after a teardown no loop task of the guild is running.
C8_TeardownCancelsLoop ==
    \A g \in FrontGuilds : TeardownDone => tasks[g] = 0

\* C9: a teardown that ran with no other command applied meanwhile leaves
\* the queue empty, no current track, no voice client and _vc_ready clear;
\* a teardown called on a player in that state changes none of queue,
\* current, voice, _vc_ready, volume, repeat mode and audio player.
C9_Teardown ==
    /\ [](\A g \in FrontGuilds : TeardownDone => TornDown(g))
    /\ [][\A g \in FrontGuilds :
             (/\ TornDown(g)
              /\ \/ last'.op = "Disconnect"
                 \/ last' = [op |-> "ApplyControl", arg |-> "leave"])
             => /\ TornDown(g)'
                /\ UNCHANGED <<queue, current, voice, vc_ready, volume,
                               loop_mode, playing, pc, tasks>>]_vars

\* a second teardown directly after a first, with the loop task alive
C9_Witness ==
    /\ last = [op |-> "Disconnect", arg |-> "again"]
    /\ pc[7] # "none"
    /\ TornDown(7)

\* C10 (as claimed): after a stop record is applied the player's queue is
\* empty and it has no current track.
C10_StopClears ==
    \A g \in FrontGuilds :
        last = [op |-> "ApplyControl", arg |-> "stop"]
        => (queue[g] = <<>> /\ current[g] = None)

\* C7 (as claimed): whatever the repeat mode, when the current track is one
\* whose extraction always fails and a sound track is next in the queue,
\* the sound track eventually becomes current.
C7_SkipNeverStalls ==
    \A g \in FrontGuilds :
        (current[g] \in broken /\ queue[g] # <<>> /\ Head(queue[g]) \notin broken)
        ~> (current[g] \in Tracks \ broken)
\* C11: a player never has more than one _player_loop task that has not
\* finished, whatever the order of the start requests of join, play, playtop
\* and the control records play and playtop.
C11_OneLoopTask == \A g \in Gids : tasks[g] <= 1

\* a control play resumed from its search and asked for a start while the
\* task another handler had started was already running
C11_Witness ==
    /\ last.op = "CtlSearchDone"
    /\ tasks[7] = 1
    /\ pc[7] \notin {"none", "new"}
\* the record handed to _apply_control last, and what it names
LastRec == recs[LastOf(applied)]
JustApplied == last.op = "ApplyControl" /\ applied # <<>>
NamesGuild(e) == IntOk(GidOf(e.payload)) /\ IntVal(GidOf(e.payload)) # 0

\* C12: every player's volume is an integer from 1 to 200, whatever levels
\* /music volume and the control records volume carry.
C12_VolumeRange == \A g \in Gids : volume[g] \in VolMin..VolMax

\* a control record with level -5 has left volume 1
C12_Witness ==
    /\ JustApplied
    /\ LastRec = Vol(JInt(-5))
    /\ volume[7] = 1

\* C13 (as claimed): after a control record volume with an integer level is
\* applied, the volume of the player it names is min(200, max(1, level)).
C13_VolumeResult ==
    (/\ JustApplied
     /\ LastRec.action = "volume"
     /\ NamesGuild(LastRec)
     /\ IntOk(PGet(LastRec.payload, "level")))
    => volume[IntVal(GidOf(LastRec.payload))]
         = (LET l == IntVal(PGet(LastRec.payload, "level"))
                m == IF l < 1 THEN 1 ELSE l
            IN  IF m > 200 THEN 200 ELSE m)

\* C14 (as claimed): every player's repeat mode is one of off, track, queue
\* and auto, whatever the mode field of a control record loop carries.
C14_ModeDomain == \A g \in Gids : loop_mode[g] \in Modes

\* C19: applying a decoded record whose payload has no guild_id, a null one
\* or 0 creates no player and changes no player, and the ingestor goes on to
\* the next line of the batch.
C19_NoGuildDropped ==
    [][(/\ ctl_pc = "batch"
        /\ DecodeOk(Head(ctl_lines))
        /\ ~Truthy(PGet(Decode(Head(ctl_lines)).payload, "guild_id")))
       => /\ UNCHANGED sessVars
          /\ ctl_lines' = Tail(ctl_lines)
          /\ ctl_pc' = IF Tail(ctl_lines) = <<>> THEN "sleep" ELSE "batch"]_vars

\* a record without a guild id was dropped and the record behind it, read in
\* the same batch, was applied
C19_Witness ==
    /\ JustApplied
    /\ applied = <<1, 2>>
    /\ recs[1] \in NoGidEvents
    /\ recs[2] = Vol(JInt(150))
    /\ control_pos = Terminator(2)
    /\ players = {7}
    /\ volume[7] = 150
\* what the claims say of the queue editors, stated on the queue found, the
\* arguments and the queue left
InRange(q, i) == 1 <= i /\ i <= Len(q)
Others(seq, k) == [i \in 1..(Len(seq) - 1) |-> IF i < k THEN seq[i] ELSE seq[i + 1]]
SameItems(a, b) == \A t \in QTracks : Count(a, t) = Count(b, t)
ArgOf(e, k) == IF k \in DOMAIN e.payload THEN e.payload[k].v ELSE 0

MoveClaim(q, src, dst, after) ==
    IF InRange(q, src) /\ InRange(q, dst)
    THEN /\ Len(after) = Len(q)
         /\ SameItems(after, q)
         /\ after[dst] = q[src]
         /\ Others(after, dst) = Others(q, src)
         /\ src = dst => after = q
    ELSE after = q

RemoveClaim(q, index, after) ==
    IF InRange(q, index)
    THEN Len(after) = Len(q) - 1 /\ after = Others(q, index)
    ELSE after = q

\* C15: q_move(src, dst) with both indices from 1 to the length returns True,
\* keeps the items, puts the moved item at position dst and leaves the
\* others in their order (src = dst changes nothing); with an index below 1
\* or above the length it returns False and the queue is unchanged. The
\* control record queue_move leaves the same queue.
C15_MoveTo ==
    /\ last.op = "q_move"
          => /\ last.arg.ret = (/\ InRange(last.arg.q, last.arg.src)
                                /\ InRange(last.arg.q, last.arg.dst))
             /\ MoveClaim(last.arg.q, last.arg.src, last.arg.dst, queue[7])
    /\ (last.op = "ApplyControl" /\ last.arg.evt.action = "queue_move")
          => MoveClaim(last.arg.q, ArgOf(last.arg.evt, "src"),
                       ArgOf(last.arg.evt, "dst"), queue[7])

\* [A, B, C] moved 3 to 1 is [C, A, B]
C15_Witness ==
    /\ last.op = "q_move"
    /\ last.arg.q = <<"A", "B", "C">>
    /\ last.arg.src = 3 /\ last.arg.dst = 1
    /\ last.arg.ret
    /\ queue[7] = <<"C", "A", "B">>

\* C16: q_remove(index) with an index from 1 to the length returns the item
\* at that position and leaves the queue without it, the rest in order; with
\* any other index it returns None and the queue is unchanged. The control
\* record queue_remove, also when it has no index, leaves the same queue.
C16_RemoveAt ==
    /\ last.op = "q_remove"
          => /\ last.arg.ret = (IF InRange(last.arg.q, last.arg.index)
                                THEN last.arg.q[last.arg.index] ELSE None)
             /\ RemoveClaim(last.arg.q, last.arg.index, queue[7])
    /\ (last.op = "ApplyControl" /\ last.arg.evt.action = "queue_remove")
          => RemoveClaim(last.arg.q, ArgOf(last.arg.evt, "index"), queue[7])

\* [C, A, B] with index 2 removed returns A and leaves [C, B]
C16_Witness ==
    /\ last.op = "q_remove"
    /\ last.arg.q = <<"C", "A", "B">>
    /\ last.arg.index = 2
    /\ last.arg.ret = "A"
    /\ queue[7] = <<"C", "B">>

\* C17: a shuffle, by /music shuffle or by the control record, leaves a
\* queue of the same length with the same items, and changes neither the
\* current track, the volume, the repeat mode nor the exported state file -
\* with exports taken before and after it.
C17_ShuffleFrame ==
    [][(\/ last'.op = "q_shuffle"
        \/ last'.op = "ApplyControl" /\ last'.arg.evt.action = "shuffle")
       => /\ \A g \in Gids : /\ Len(queue'[g]) = Len(queue[g])
                              /\ SameItems(queue'[g], queue[g])
          /\ UNCHANGED <<current, volume, loop_mode, exported>>]_vars

\* the state file holds the order exported before the shuffle
C17_Witness ==
    /\ last.op = "q_shuffle"
    /\ 7 \in DOMAIN exported
    /\ exported[7].queue = <<"A", "B", "C">>
    /\ queue[7] = <<"C", "A", "B">>
    /\ current[7] = "A"
\* the records among the first n that decode, in log order
RECURSIVE Good(_)
Good(n) ==
    IF n = 0 THEN <<>>
    ELSE IF recs[n].action = "<garbage>" THEN Good(n - 1)
         ELSE Append(Good(n - 1), n)

\* whole records the offset has passed
RecsRead == control_pos \div (RecLen + 1)

\* C18: a line that does not decode is skipped with no effect on any player
\* and the batch goes on; the offset, moved past the batch when it was read,
\* never moves back; when the batch is done, the records handed to
\* _apply_control are all the decodable records read so far, in log order
\* (a record whose handler raises is among them and leaves the queue,
\* volume and repeat mode as they were).
C18_PoisonSkipped ==
    /\ [](ctl_pc = "sleep" => applied = Good(RecsRead))
    /\ [][/\ control_pos' >= control_pos
          /\ (ctl_pc = "batch" /\ ~DecodeOk(Head(ctl_lines)))
                => /\ UNCHANGED <<sessVars, applied, control_pos>>
                   /\ ctl_lines' = Tail(ctl_lines)
          /\ (ctl_pc = "batch" /\ DecodeOk(Head(ctl_lines))
                                /\ Decode(Head(ctl_lines)) = RaisingRec)
                => /\ UNCHANGED <<queue, current, volume, loop_mode>>
                   /\ ctl_lines' = Tail(ctl_lines)]_vars

\* the second of three lines was skipped after the first was applied, and
\* the third is next in the batch
C18_Witness ==
    /\ last.op = "TickSkip"
    /\ Len(recs) = 3
    /\ recs[2] = Garbage
    /\ applied = <<1>>
    /\ ctl_pc = "batch"
    /\ ctl_lines = <<RecLine(3)>>
    /\ control_pos = Terminator(3)

\* C20: records are handed to _apply_control in log order, and none is
\* handed over while the handler of an earlier one is suspended: the record
\* suspended in its search is the last one handed over, and a record is
\* handed over only from the batch loop with no handler pending.
C20_LogOrder ==
    /\ [](/\ \A i \in 1..Len(applied) :
               \A j \in 1..Len(applied) : i < j => applied[i] < applied[j]
          /\ ctl_pc = "search" => (applied # <<>> /\ LastRec = ctl_evt))
    /\ [][applied' # applied
            => (ctl_pc = "batch" /\ ctl_evt = NoEvt)]_vars

\* a play is suspended in its search while the record behind it, read in
\* the same batch, waits
C20_Witness ==
    /\ ctl_pc = "search"
    /\ applied = <<1>>
    /\ recs[1] = PlayQ
    /\ ctl_lines = <<RecLine(2)>>
    /\ recs[2] = LoopTrack
    /\ loop_mode[7] = "off"
\* C21: an export, whether or not its write succeeds, changes no player's
\* queue, current track, volume or repeat mode; after a successful export
\* the state file has one entry per player, whose queue_len is the number of
\* pending tracks and whose queue is the first min(queue_len, limit) pending
\* tracks in queue order; a failed write leaves the state file as it was.
C21_ExportReadOnly ==
    /\ [][last'.op \in {"Export", "ExportFailed"}
            => /\ UNCHANGED <<players, queue, current, volume, loop_mode>>
               /\ last'.op = "ExportFailed" => UNCHANGED exported]_vars
    /\ [](last.op = "Export"
            => /\ DOMAIN exported = players
               /\ \A g \in players :
                     /\ exported[g].queue_len = Len(queue[g])
                     /\ Len(exported[g].queue) =
                            (IF Len(queue[g]) < QueueExportLimit
                             THEN Len(queue[g]) ELSE QueueExportLimit)
                     /\ \A i \in 1..Len(exported[g].queue) :
                            exported[g].queue[i] = queue[g][i])

\* an export of a queue one longer than the limit
C21_Witness ==
    /\ last.op = "Export"
    /\ Len(queue[7]) = QueueExportLimit + 1
    /\ exported[7].queue_len = QueueExportLimit + 1
    /\ Len(exported[7].queue) = QueueExportLimit
\* C22 (as claimed): a completion signal raised twice for one track, or
\* raised while the loop is idle or loading, never makes the loop take a
\* track as finished that the voice client is still rendering: when the
\* loop passes its wait for the completion event with a current track, the
\* audio player is not rendering that track.
C22_SignalDiscipline ==
    \A g \in Gids :
        (pc[g] = "dispatch" /\ last.op \in {"Played", "LoopWake"}
                            /\ current[g] # None)
        => playing[g] # current[g]
\* the record that asked for track t was a playtop
IsTop(t) == recs[Ord(t)].action = "playtop"

AsOff(g) ==
    [S(g) EXCEPT !.loop_mode = IF @ = "auto" THEN "off" ELSE @]

\* C25: the dispatch after a completion in repeat mode off or auto leaves no
\* current track and the queue as it was (the finished track is not put
\* back); a session under auto and a session under off that are given the
\* same operations are in the same state after every step, the repeat mode
\* apart.
C25_OffAuto ==
    /\ [][\A g \in Gids :
             (pc[g] = "dispatch" /\ loop_mode[g] \in {"off", "auto"})
             => /\ current'[g] = None
                /\ queue'[g] = queue[g]
                /\ pc'[g] = "top"]_vars
    /\ [](AsOff(7) = AsOff(8) /\ ltrack[7] = ltrack[8])

\* a completion of A under auto with B pending
C25_Witness ==
    /\ last = [op |-> "Twin", arg |-> [op |-> "dispatch", cur |-> "A"]]
    /\ loop_mode[7] = "auto"
    /\ current[7] = None
    /\ queue[7] = <<"B">>
    /\ queue[8] = <<"B">>
\* C26 (as claimed): whenever the voice client's audio player renders a
\* track, that track is the player's current track - also when a stop or a
\* leave was applied while the loop was suspended in the extraction of the
\* track it had just popped.
C26_TransportAgrees ==
    \A g \in Gids : playing[g] # None => current[g] = playing[g]
\* how many times track t is pending or current in guild g
Held(g, t) == Count(queue[g], t) + (IF current[g] = t THEN 1 ELSE 0)

\* C27: each step leaves every track as often in (queue plus current) as
\* it was, except that an enqueue adds the one track it found, a completion
\* under a repeat mode other than track and queue takes out the current
\* track, a removal by index takes out the track it returns and a leave
\* takes out all. So a pop moves the head into current, and in repeat mode
\* queue no completion, skip, move, shuffle or failed and retried cycle of
\* the loop changes the tracks held.
C27_NoTrackLoss ==
    [][\A g \in FrontGuilds : \A t \in Tracks :
          CASE last'.op = "Dispatch" /\ last'.arg \notin {"track", "queue", "absent"} ->
                   Held(g, t)' = Held(g, t) - (IF current[g] = t THEN 1 ELSE 0)
            [] last'.op = "q_remove" ->
                   Held(g, t)' = Held(g, t) - (IF last'.arg.ret = t THEN 1 ELSE 0)
            [] last'.op \in {"DisconnectBegin", "Disconnect"} ->
                   Held(g, t)' = 0
            [] last'.op = "cmd" ->
                   \/ Held(g, t)' = Held(g, t)
                   \/ /\ fe_search[g] # "none"
                      /\ fe_search'[g] = "none"
                      /\ Held(g, t)' = Held(g, t) + 1
                      /\ \A u \in Tracks \ {t} : Held(g, u)' = Held(g, u)
            [] OTHER -> Held(g, t)' = Held(g, t)]_vars

\* in repeat mode queue a cycle of the loop has failed (voice.play raised)
\* with A current and B pending; the loop backs off to try again
C27_Witness ==
    /\ last.op = "PlayRaised"
    /\ loop_mode[7] = "queue"
    /\ pc[7] = "backoff"
    /\ current[7] = "A"
    /\ queue[7] = <<"B">>
====
